---- MODULE Spec2Model ----
(***************************************************************************)
(* The recipe recommendation engine of app.py: the catalog loaded at       *)
(* import, and one POST /recipes request at a time running match_score     *)
(* over the catalog, the stable ranking sort, greedy_recommendation and    *)
(* backtracking_best_combo (its recursion kept as an explicit call stack). *)
(*                                                                         *)
(* A Python str is a sequence of one-character strings; a Python set is a  *)
(* set; a list is a sequence.  A float score is kept as the exact fraction *)
(* [n, d] in lowest terms, and float comparison and addition are the exact *)
(* ones (the denominators the bounds allow are far too small for rounding  *)
(* to reorder two sums).  The substitution table, the bipartite graph and  *)
(* the "insights" flag only decorate the rendered page and are left out.   *)
(***************************************************************************)
EXTENDS Integers, Sequences, FiniteSets, TLC

\* ------------------------------------------------------------------ bounds

\* Longest catalog loaded from recipes.json.
MaxRecipes == 3

\* Largest num_combo a form submits (the smallest is -1).
MaxNumCombo == 2

\* ----------------------------------------------------------------- strings

\* The characters that occur, in code point order (str comparison follows it).
CodePointOrder ==
    << " ", ",", "-", "0", "1", "2", "3", "4", "5", "6", "7", "8", "9",
       "A", "B", "C", "D", "E", "a", "b", "c", "d", "e", "x" >>

CodePoint(c) == CHOOSE i \in 1..Len(CodePointOrder) : CodePointOrder[i] = c

UpperCase == << "A", "B", "C", "D", "E" >>
LowerCase == << "a", "b", "c", "d", "e" >>
Digits == << "0", "1", "2", "3", "4", "5", "6", "7", "8", "9" >>
Whitespace == { " " }

\* set(seq)
SetOf(seq) == { seq[i] : i \in 1..Len(seq) }

\* str.lower()
Lower(s) ==
    [ i \in 1..Len(s) |->
        IF \E k \in 1..Len(UpperCase) : UpperCase[k] = s[i]
        THEN LowerCase[CHOOSE k \in 1..Len(UpperCase) : UpperCase[k] = s[i]]
        ELSE s[i] ]

\* str.strip(): leading and trailing whitespace removed.
Strip(s) ==
    LET keep == { i \in 1..Len(s) : s[i] \notin Whitespace }
    IN  IF keep = {} THEN << >>
        ELSE LET lo == CHOOSE i \in keep : \A j \in keep : i <= j
                 hi == CHOOSE i \in keep : \A j \in keep : j <= i
             IN  SubSeq(s, lo, hi)

\* str.split(","): the fields between the commas, an empty str giving [""].
RECURSIVE SplitFrom(_, _, _)
SplitFrom(s, i, field) ==
    IF i > Len(s) THEN << field >>
    ELSE IF s[i] = "," THEN << field >> \o SplitFrom(s, i + 1, << >>)
    ELSE SplitFrom(s, i + 1, Append(field, s[i]))

Split(s) == SplitFrom(s, 1, << >>)

\* s < t for two str: the first differing code point decides, a proper prefix is smaller.
RECURSIVE StrLess(_, _)
StrLess(s, t) ==
    IF t = << >> THEN FALSE
    ELSE IF s = << >> THEN TRUE
    ELSE IF Head(s) = Head(t) THEN StrLess(Tail(s), Tail(t))
    ELSE CodePoint(Head(s)) < CodePoint(Head(t))

\* sorted(list(S)) for a set of str.
RECURSIVE Sorted(_)
Sorted(S) ==
    IF S = {} THEN << >>
    ELSE LET m == CHOOSE x \in S : \A y \in S \ {x} : StrLess(x, y)
         IN  << m >> \o Sorted(S \ {m})

\* int(text): the value, or the ValueError.
RECURSIVE DigitsValue(_, _)
DigitsValue(s, acc) ==
    IF s = << >> THEN acc
    ELSE DigitsValue(Tail(s),
            10 * acc + (CHOOSE k \in 1..Len(Digits) : Digits[k] = Head(s)) - 1)

ParseInt(text) ==
    LET t == Strip(text)
        neg == t /= << >> /\ Head(t) = "-"
        body == IF neg THEN Tail(t) ELSE t
    IN  IF body = << >> \/ \E i \in 1..Len(body) : body[i] \notin SetOf(Digits)
        THEN [ok |-> FALSE, value |-> 0]
        ELSE [ok |-> TRUE,
              value |-> IF neg THEN 0 - DigitsValue(body, 0) ELSE DigitsValue(body, 0)]

\* --------------------------------------------------------------- fractions

Max(a, b) == IF a >= b THEN a ELSE b

RECURSIVE Gcd(_, _)
Gcd(a, b) == IF b = 0 THEN a ELSE Gcd(b, a % b)

\* n / d, in lowest terms.
Frac(n, d) == LET g == Gcd(n, d) IN [n |-> n \div g, d |-> d \div g]

Zero == Frac(0, 1)

FracAdd(x, y) == Frac(x.n * y.d + y.n * x.d, x.d * y.d)

FracGT(x, y) == x.n * y.d > y.n * x.d

Pow10(k) == IF k = 0 THEN 1 ELSE IF k = 1 THEN 10 ELSE IF k = 2 THEN 100 ELSE 1000

\* round(s, 3), in thousandths: to the nearest, a half going to the even one.
Round3(x) ==
    LET scaled == x.n * Pow10(3)
        q == scaled \div x.d
        r == scaled % x.d
    IN  IF 2 * r > x.d \/ (2 * r = x.d /\ q % 2 = 1) THEN q + 1 ELSE q

\* --------------------------------------------------------------- the engine

normalize_ings(ing_list) ==
    [ i \in 1..Len(ing_list) |-> Strip(Lower(ing_list[i])) ]

\* req of a recipe: set(normalize_ings(recipe["ingredients"]))
Req(recipe) == SetOf(normalize_ings(recipe.ingredients))

\* A faulty match_score: divides by the length of the ingredient list, not of req.
match_score_by_list_length(recipe, available_set) ==
    LET req == Req(recipe)
        present == req \cap available_set
    IN  [ score |-> Frac(Cardinality(present), Max(Len(recipe.ingredients), 1)),
          missing |-> Sorted(req \ available_set),
          present |-> Sorted(present) ]

match_score(recipe, available_set) ==
    LET req == Req(recipe)
        present == req \cap available_set
    IN  [ score |-> Frac(Cardinality(present), Max(Cardinality(req), 1)),
          missing |-> Sorted(req \ available_set),
          present |-> Sorted(present) ]

\* for r in candidates: keep the first recipe whose cover is strictly the largest
\* (lines 71-78).  best is << >> for None, << r >> for a recipe.
\* A faulty scan: >= for >, so the last of the tied candidates wins.
RECURSIVE ScanCandidatesLastWins(_, _, _, _, _)
ScanCandidatesLastWins(cands, i, remaining_, best, best_cover) ==
    IF i > Len(cands) THEN [best |-> best, best_cover |-> best_cover]
    ELSE LET cover == Req(cands[i]) \cap remaining_
         IN  IF Cardinality(cover) >= Cardinality(best_cover)
             THEN ScanCandidatesLastWins(cands, i + 1, remaining_, << cands[i] >>, cover)
             ELSE ScanCandidatesLastWins(cands, i + 1, remaining_, best, best_cover)

RECURSIVE ScanCandidates(_, _, _, _, _)
ScanCandidates(cands, i, remaining_, best, best_cover) ==
    IF i > Len(cands) THEN [best |-> best, best_cover |-> best_cover]
    ELSE LET cover == Req(cands[i]) \cap remaining_
         IN  IF Cardinality(cover) > Cardinality(best_cover)
             THEN ScanCandidates(cands, i + 1, remaining_, << cands[i] >>, cover)
             ELSE ScanCandidates(cands, i + 1, remaining_, best, best_cover)

BestCandidate(cands, remaining_) == ScanCandidates(cands, 1, remaining_, << >>, {})

\* list.remove(x): the first element equal to x is dropped.
ListRemove(list, x) ==
    LET k == CHOOSE i \in 1..Len(list) : list[i] = x /\ \A j \in 1..(i - 1) : list[j] /= x
    IN  SubSeq(list, 1, k - 1) \o SubSeq(list, k + 1, Len(list))

\* for _ in range(k): whether an iteration follows the iter already begun (line 70).
\* A faulty loop bound: one iteration too many.
LoopContinuesOnceMore(iter_, k) == iter_ <= k

LoopContinues(iter_, k) == iter_ < k

\* remaining -= best_cover (line 82).
\* A faulty update: the covered ingredients stay in remaining.
RemainingKept(remaining_, best_cover) == remaining_

RemainingAfter(remaining_, best_cover) == remaining_ \ best_cover

\* The break test of the greedy loop (line 79).
GreedyBreaks(b) == b.best = << >> \/ Cardinality(b.best_cover) = 0

\* The key of the ranking sort: (-score, -len(present)), score being the rounded one.
SortKey(m) == << 0 - m.score, 0 - Len(m.present) >>

KeyLess(a, b) == a[1] < b[1] \/ (a[1] = b[1] /\ a[2] < b[2])

\* list.sort(key=...): a stable sort; x goes after every element whose key is not greater.
\* A faulty sort: x goes before the elements of equal key (not stable).
RECURSIVE InsertSortedUnstable(_, _)
InsertSortedUnstable(sorted, x) ==
    IF sorted = << >> THEN << x >>
    ELSE IF ~KeyLess(SortKey(Head(sorted)), SortKey(x))
         THEN << x >> \o sorted
         ELSE << Head(sorted) >> \o InsertSortedUnstable(Tail(sorted), x)

RECURSIVE InsertSorted(_, _)
InsertSorted(sorted, x) ==
    IF sorted = << >> THEN << x >>
    ELSE IF KeyLess(SortKey(x), SortKey(Head(sorted)))
         THEN << x >> \o sorted
         ELSE << Head(sorted) >> \o InsertSorted(Tail(sorted), x)

RECURSIVE SortMatches(_)
SortMatches(list) ==
    IF list = << >> THEN << >>
    ELSE InsertSorted(SortMatches(SubSeq(list, 1, Len(list) - 1)), list[Len(list)])

\* The loop of recipe_list that builds matched_recipes (lines 148-159).
RECURSIVE MatchAll(_, _, _)
MatchAll(catalog, i, available_set) ==
    IF i > Len(catalog) THEN << >>
    ELSE LET m == match_score(catalog[i], available_set)
             rest == MatchAll(catalog, i + 1, available_set)
         IN  IF FracGT(m.score, Zero)
             THEN << [ recipe |-> catalog[i], score |-> Round3(m.score),
                       missing |-> m.missing, present |-> m.present ] >> \o rest
             ELSE rest

\* available = [i.strip() for i in raw.split(",") if i.strip()]
ParseAvailable(raw) ==
    LET fields == Split(raw)
        stripped == [ i \in 1..Len(fields) |-> Strip(fields[i]) ]
    IN  SelectSeq(stripped, LAMBDA f : f /= << >>)

\* request.form.get(key, default): a field is << >> when absent, << text >> when sent.
FormGet(field, default) == IF field = << >> THEN default ELSE field[1]

\* The recipes backtracking_best_combo searches (line 95).
ComboCandidates(catalog, avail_norm) ==
    SelectSeq(catalog, LAMBDA r : Req(r) \cap avail_norm /= {})

EmptySolution ==
    [ recipes |-> << >>, coverage_count |-> 0, score_sum |-> Zero, covered |-> {} ]

\* The test that a node replaces the stored best (lines 100-102).
\* A faulty test: coverage alone, the score sum never breaks a tie.
BetterCoverageOnly(covered, score_sum, best) ==
    Cardinality(covered) > best.coverage_count

\* A faulty test: an equal node replaces the stored best.
BetterOrEqual(covered, score_sum, best) ==
    \/ Cardinality(covered) > best.coverage_count
    \/ /\ Cardinality(covered) = best.coverage_count
       /\ ~FracGT(best.score_sum, score_sum)

Better(covered, score_sum, best) ==
    \/ Cardinality(covered) > best.coverage_count
    \/ /\ Cardinality(covered) = best.coverage_count
       /\ FracGT(score_sum, best.score_sum)

\* "update best" of dfs (lines 100-106).
UpdateBest(best, chosen_, covered, score_sum) ==
    IF Better(covered, score_sum, best)
    THEN [ recipes |-> chosen_, coverage_count |-> Cardinality(covered),
           score_sum |-> score_sum, covered |-> covered ]
    ELSE best

\* The pruning test of dfs (line 108).
\* A faulty test: prunes one level early.
PrunedEarly(chosen_, max_recipes) == Len(chosen_) + 1 >= max_recipes

\* A faulty test: == for >=, which a negative max_recipes never meets.
PrunedExact(chosen_, max_recipes) == Len(chosen_) = max_recipes

Pruned(chosen_, max_recipes) == Len(chosen_) >= max_recipes

\* The frame of a dfs call that has run lines 99-109: at its return statement, or
\* at the head of its loop with i = start.
Frame(start, chosen_, covered, score_sum, max_recipes) ==
    [ start |-> start, i |-> start, covered |-> covered, score_sum |-> score_sum,
      returning |-> Pruned(chosen_, max_recipes) ]

\* The start index dfs passes to the call for candidate i (line 116).
\* A faulty start index: the call may take candidate i again.
NextStartSame(i) == i

NextStart(i) == i + 1

\* ------------------------------------------------------------------- inputs

S(c) == << c >>

\* The ingredient lists the catalog's recipes are drawn from: overlapping pairs, a
\* list with upper case, padding and a repeated ingredient, and a recipe with none.
IngredientLists ==
    { << S("b"), S("c") >>,
      << << " ", "A" >>, S("b") >>,
      << S("c"), << "D", " " >> >>,
      << S("a"), S("A"), S("e") >>,
      << >> }

\* Catalogs of at most MaxRecipes recipes, ids assigned in catalog order.
Catalogs ==
    UNION { { [ i \in 1..n |-> [ id |-> i, ingredients |-> l[i] ] ] :
                l \in [ 1..n -> IngredientLists ] } : n \in 0..MaxRecipes }

\* The "ingredients" texts a form sends.
IngredientTexts ==
    { << >>,
      << "c" >>,
      << "b", ",", "c" >>,
      << "a", ",", "B" >>,
      << "a", ",", " ", "a" >>,
      << " ", "A", ",", "b", " ", ",", ",", "c", ",", "d" >> }

\* The decimal text of a num_combo in -1..MaxNumCombo (one digit is enough).
IntText(v) == IF v < 0 THEN << "-", Digits[(0 - v) + 1] >> ELSE << Digits[v + 1] >>

\* The "num_combo" texts a form sends: the integers, padded once, and two non-integers.
NumComboTexts ==
    { IntText(v) : v \in (0 - 1)..MaxNumCombo }
        \cup { << " ", "1" >>, << >>, << "x" >> }

Forms ==
    [ ingredients : { << >> } \cup { << t >> : t \in IngredientTexts },
      num_combo : { << >> } \cup { << t >> : t \in NumComboTexts } ]

\* -------------------------------------------------------------------- state

VARIABLES
    recipes,          \* the catalog (module level, read only)
    pc,               \* where the request is: idle, greedy, combo, done, error
    form,             \* request.form
    available,        \* recipe_list: available
    available_norm,   \* recipe_list: available_norm (the recommenders' avail_norm, the
                      \* same set(normalize_ings(available)), is read from it)
    num_combo,        \* recipe_list: num_combo
    scores,           \* history: what match_score returned for each recipe (line 150)
    matched_recipes,  \* recipe_list: matched_recipes
    remaining,        \* greedy_recommendation: remaining
    chosen,           \* greedy_recommendation: chosen
    candidates,       \* greedy_recommendation: candidates
    iter,             \* greedy_recommendation: iterations of the for loop begun
    greedy_choices,   \* recipe_list: greedy_choices
    greedy_covered,   \* recipe_list: greedy_covered
    bt_candidates,    \* backtracking_best_combo: candidates
    best_solution,    \* backtracking_best_combo: best_solution
    dfs_chosen,       \* dfs: chosen (one list shared by every call)
    stack,            \* dfs: the frames of the calls in progress, innermost last
    visited,          \* history: the chosen id lists of the dfs nodes, in visiting order
    bt_best           \* recipe_list: bt_best

vars ==
    << recipes, pc, form, available, available_norm, num_combo, scores, matched_recipes, remaining, chosen,
       candidates, iter, greedy_choices, greedy_covered, bt_candidates,
       best_solution, dfs_chosen, stack, visited, bt_best >>

greedy_vars == << remaining, chosen, candidates, iter >>
dfs_vars == << bt_candidates, best_solution, dfs_chosen, stack, visited >>

Init ==
    /\ recipes \in Catalogs
    /\ pc = "idle"
    /\ form = [ ingredients |-> << >>, num_combo |-> << >> ]
    /\ available = << >>
    /\ available_norm = {}
    /\ num_combo = 0
    /\ scores = << >>
    /\ matched_recipes = << >>
    /\ remaining = {}
    /\ chosen = << >>
    /\ candidates = << >>
    /\ iter = 0
    /\ greedy_choices = << >>
    /\ greedy_covered = << >>
    /\ bt_candidates = << >>
    /\ best_solution = EmptySolution
    /\ dfs_chosen = << >>
    /\ stack = << >>
    /\ visited = << >>
    /\ bt_best = EmptySolution

\* POST /recipes arrives (lines 137-168): the form is parsed, int() may raise, the
\* matches are built and sorted, and greedy_recommendation is entered (lines 65-68).
RecipeListBegin ==
    /\ pc = "idle"
    /\ \E f \in Forms :
        LET raw == FormGet(f.ingredients, << >>)
            avail == ParseAvailable(raw)
            parsed == ParseInt(FormGet(f.num_combo, << "3" >>))
            avail_norm == SetOf(normalize_ings(avail))
        IN  /\ form' = f
            /\ available' = avail
            /\ available_norm' = avail_norm
            /\ greedy_choices' = << >>
            /\ greedy_covered' = << >>
            /\ bt_candidates' = << >>
            /\ best_solution' = EmptySolution
            /\ dfs_chosen' = << >>
            /\ stack' = << >>
            /\ visited' = << >>
            /\ bt_best' = EmptySolution
            /\ iter' = 0
            /\ chosen' = << >>
            /\ IF parsed.ok
               THEN /\ pc' = "greedy"
                    /\ num_combo' = parsed.value
                    /\ scores' = [ i \in 1..Len(recipes) |->
                                        match_score(recipes[i], avail_norm) ]
                    /\ matched_recipes' = SortMatches(MatchAll(recipes, 1, avail_norm))
                    /\ remaining' = avail_norm
                    /\ candidates' = recipes
               ELSE /\ pc' = "error"
                    /\ num_combo' = 0
                    /\ scores' = << >>
                    /\ matched_recipes' = << >>
                    /\ remaining' = {}
                    /\ candidates' = << >>
    /\ UNCHANGED recipes

\* One iteration of the greedy loop that selects a recipe (lines 70-83).
GreedyIteration ==
    /\ pc = "greedy"
    /\ LoopContinues(iter, num_combo)
    /\ LET b == BestCandidate(candidates, remaining)
       IN  /\ ~GreedyBreaks(b)
           /\ chosen' = Append(chosen,
                    [ recipe |-> b.best[1], covered |-> Sorted(b.best_cover) ])
           /\ remaining' = RemainingAfter(remaining, b.best_cover)
           /\ candidates' = ListRemove(candidates, b.best[1])
    /\ iter' = iter + 1
    /\ UNCHANGED << recipes, pc, form, available, available_norm, num_combo, scores, matched_recipes,
                    greedy_choices, greedy_covered, bt_best >>
    /\ UNCHANGED dfs_vars

\* The loop ends (range(k) exhausted, or the break of line 80), greedy_recommendation
\* returns (line 84), and backtracking_best_combo runs to the root call of dfs
\* (lines 93-96, 119, 99-109).
GreedyReturn ==
    /\ pc = "greedy"
    /\ ~LoopContinues(iter, num_combo)
            \/ GreedyBreaks(BestCandidate(candidates, remaining))
    /\ greedy_choices' = chosen
    /\ greedy_covered' = Sorted(available_norm \ remaining)
    /\ bt_candidates' = ComboCandidates(recipes, available_norm)
    /\ best_solution' = UpdateBest(EmptySolution, << >>, {}, Zero)
    /\ dfs_chosen' = << >>
    /\ stack' = << Frame(0, << >>, {}, Zero, num_combo) >>
    /\ visited' = << << >> >>
    /\ pc' = "combo"
    /\ UNCHANGED << recipes, form, available, available_norm, num_combo, scores, matched_recipes,
                    bt_best >>
    /\ UNCHANGED greedy_vars

IdsOf(list) == [ i \in 1..Len(list) |-> list[i].id ]

\* The loop of dfs takes candidate i and calls dfs for it (lines 110-116); the
\* call runs its lines 99-109.
DfsCall ==
    /\ pc = "combo"
    /\ stack /= << >>
    /\ LET top == stack[Len(stack)]
       IN  /\ ~top.returning
           /\ top.i < Len(bt_candidates)
           /\ LET r == bt_candidates[top.i + 1]
                  new_covered == top.covered \cup (Req(r) \cap available_norm)
                  s == match_score(r, available_norm).score
                  new_chosen == Append(dfs_chosen, r)
                  new_sum == FracAdd(top.score_sum, s)
              IN  /\ dfs_chosen' = new_chosen
                  /\ best_solution' =
                        UpdateBest(best_solution, new_chosen, new_covered, new_sum)
                  /\ stack' = Append(stack,
                        Frame(NextStart(top.i), new_chosen, new_covered, new_sum, num_combo))
                  /\ visited' = Append(visited, IdsOf(new_chosen))
    /\ UNCHANGED << recipes, pc, form, available, available_norm, num_combo, scores, matched_recipes,
                    greedy_choices, greedy_covered, bt_candidates, bt_best >>
    /\ UNCHANGED greedy_vars

\* A call of dfs returns (line 109, or its loop is exhausted); its caller pops
\* chosen and moves to the next candidate (line 117).
DfsReturn ==
    /\ pc = "combo"
    /\ Len(stack) > 1
    /\ LET top == stack[Len(stack)]
           parent == stack[Len(stack) - 1]
       IN  /\ top.returning \/ top.i >= Len(bt_candidates)
           /\ dfs_chosen' = SubSeq(dfs_chosen, 1, Len(dfs_chosen) - 1)
           /\ stack' = Append(SubSeq(stack, 1, Len(stack) - 2),
                              [ parent EXCEPT !.i = parent.i + 1 ])
    /\ UNCHANGED << recipes, pc, form, available, available_norm, num_combo, scores, matched_recipes,
                    greedy_choices, greedy_covered, bt_candidates, best_solution,
                    visited, bt_best >>
    /\ UNCHANGED greedy_vars

\* The root call of dfs returns, backtracking_best_combo returns best_solution
\* (lines 119-120) and the page is rendered (lines 171-183).
ComboReturn ==
    /\ pc = "combo"
    /\ Len(stack) = 1
    /\ stack[1].returning \/ stack[1].i >= Len(bt_candidates)
    /\ bt_best' = best_solution
    /\ stack' = << >>
    /\ pc' = "done"
    /\ UNCHANGED << recipes, form, available, available_norm, num_combo, scores, matched_recipes,
                    greedy_choices, greedy_covered, bt_candidates, best_solution,
                    dfs_chosen, visited >>
    /\ UNCHANGED greedy_vars

\* The handler has returned (the page, or the 500 of an uncaught ValueError); its
\* locals are gone and the next request can arrive.
RequestEnds ==
    /\ pc \in { "done", "error" }
    /\ pc' = "idle"
    /\ form' = [ ingredients |-> << >>, num_combo |-> << >> ]
    /\ available' = << >>
    /\ available_norm' = {}
    /\ num_combo' = 0
    /\ scores' = << >>
    /\ matched_recipes' = << >>
    /\ remaining' = {}
    /\ chosen' = << >>
    /\ candidates' = << >>
    /\ iter' = 0
    /\ greedy_choices' = << >>
    /\ greedy_covered' = << >>
    /\ bt_candidates' = << >>
    /\ best_solution' = EmptySolution
    /\ dfs_chosen' = << >>
    /\ stack' = << >>
    /\ visited' = << >>
    /\ bt_best' = EmptySolution
    /\ UNCHANGED recipes

Next ==
    \/ RecipeListBegin
    \/ GreedyIteration
    \/ GreedyReturn
    \/ DfsCall
    \/ DfsReturn
    \/ ComboReturn
    \/ RequestEnds

Spec == Init /\ [][Next]_vars

\* --------------------------------------------------------------- properties

Positions == 1..Len(recipes)

\* The catalog position of a recipe (ids are unique).
Pos(r) == CHOOSE i \in Positions : recipes[i] = r

\* The page is rendered: every result of the request is in.
Rendered == pc = "done"

DistinctIds(list) ==
    \A i, j \in 1..Len(list) : i /= j => list[i].id /= list[j].id

\* The ingredients of the available set that the recipes at positions P require.
CoverOf(P) == available_norm \cap UNION { Req(recipes[i]) : i \in P }

\* The sum over P of each recipe's score against the whole available set.
RECURSIVE ScoreSumOf(_)
ScoreSumOf(P) ==
    IF P = {} THEN Zero
    ELSE LET i == CHOOSE x \in P : TRUE
         IN  FracAdd(Frac(Cardinality(Req(recipes[i]) \cap available_norm),
                          Max(Cardinality(Req(recipes[i])), 1)),
                     ScoreSumOf(P \ {i}))

\* The sets of at most k catalog positions.
Combos(k) == { P \in SUBSET Positions : Cardinality(P) <= k }

PositionsOf(list) == { i \in Positions : recipes[i] \in SetOf(list) }

\* C1: when the request is done, the combo's coverage_count is at least the number
\* of ingredients in the greedy total_covered, whatever integer num_combo is.
C1_ComboCoversAtLeastGreedy ==
    pc = "done" => bt_best.coverage_count >= Len(greedy_covered)

\* The greedy heuristic covered something and the exhaustive search strictly more.
C1_Witness ==
    /\ pc = "done"
    /\ Len(greedy_covered) > 0
    /\ bt_best.coverage_count > Len(greedy_covered)

\* C2: the returned combo is a lexicographic optimum: covered is the available set
\* cut with the union of the returned recipes' ingredients, coverage_count is its
\* size, score_sum the sum of the returned recipes' scores; no set of at most
\* num_combo catalog recipes covers more, and none of equal coverage scores more.
C2_ComboIsLexicographicOptimum ==
    pc = "done" =>
        /\ SetOf(bt_best.recipes) \subseteq SetOf(recipes)
        /\ bt_best.covered = CoverOf(PositionsOf(bt_best.recipes))
        /\ bt_best.coverage_count = Cardinality(bt_best.covered)
        /\ bt_best.score_sum = ScoreSumOf(PositionsOf(bt_best.recipes))
        /\ \A P \in Combos(num_combo) :
            /\ Cardinality(CoverOf(P)) <= bt_best.coverage_count
            /\ Cardinality(CoverOf(P)) = bt_best.coverage_count
                  => ~FracGT(ScoreSumOf(P), bt_best.score_sum)

\* Two recipes were returned, and another allowed set reaches the same coverage
\* with a strictly smaller score sum.
C2_Witness ==
    /\ pc = "done"
    /\ Len(bt_best.recipes) >= 2
    /\ \E P \in Combos(num_combo) :
        /\ Cardinality(CoverOf(P)) = bt_best.coverage_count
        /\ FracGT(bt_best.score_sum, ScoreSumOf(P))

\* C3 as stated: the returned recipes list is never longer than num_combo and
\* holds no recipe id twice, for every integer num_combo.
C3_AtMostMaxRecipesDistinct ==
    pc = "done" =>
        /\ Len(bt_best.recipes) <= num_combo
        /\ DistinctIds(bt_best.recipes)

\* C3 as amended: the best solution, stored or returned, is never longer than
\* max(num_combo, 0) and holds no recipe id twice.
C3_AtMostMaxRecipesOrNoneDistinct ==
    /\ Len(best_solution.recipes) <= Max(num_combo, 0)
    /\ DistinctIds(best_solution.recipes)
    /\ Len(bt_best.recipes) <= Max(num_combo, 0)
    /\ DistinctIds(bt_best.recipes)

\* A combo of exactly num_combo >= 2 recipes was returned.
C3_Witness ==
    /\ pc = "done"
    /\ num_combo >= 2
    /\ Len(bt_best.recipes) = num_combo

\* The covered lists of `choices` are pairwise disjoint subsets of the available
\* set whose union is `total`.
CoveredPartition(choices, total) ==
    /\ \A i \in 1..Len(choices) : SetOf(choices[i].covered) \subseteq available_norm
    /\ \A i, j \in 1..Len(choices) :
            i /= j => SetOf(choices[i].covered) \cap SetOf(choices[j].covered) = {}
    /\ UNION { SetOf(choices[i].covered) : i \in 1..Len(choices) } = total

\* C4: after every iteration of the greedy loop the covered sets chosen so far are
\* pairwise disjoint subsets of the available set with union available - remaining;
\* in the output their union is total_covered, a subset of the available set.
C4_GreedyCoveredPartition ==
    /\ pc = "greedy" => CoveredPartition(chosen, available_norm \ remaining)
    /\ Rendered =>
        /\ CoveredPartition(greedy_choices, SetOf(greedy_covered))
        /\ SetOf(greedy_covered) \subseteq available_norm
        /\ Len(greedy_covered) = Cardinality(SetOf(greedy_covered))

\* The loop has made its second selection and something is still uncovered.
C4_Witness ==
    /\ pc = "greedy"
    /\ Len(chosen) = 2
    /\ remaining /= {}

ChoicesWithin(choices, k) ==
    /\ Len(choices) <= k
    /\ DistinctIds([ i \in 1..Len(choices) |-> choices[i].recipe ])
    /\ \A i \in 1..Len(choices) : choices[i].covered /= << >>

\* C5: for num_combo >= 0 the greedy choices, in the loop and in the output, are at
\* most num_combo, no recipe id occurs twice, and every covered list is non-empty.
C5_GreedyChoicesBounded ==
    num_combo >= 0 =>
        /\ ChoicesWithin(chosen, num_combo)
        /\ ChoicesWithin(greedy_choices, num_combo)

\* The greedy output holds exactly num_combo >= 2 choices.
C5_Witness ==
    /\ pc = "done"
    /\ num_combo >= 2
    /\ Len(greedy_choices) = num_combo

\* The form sent num_combo as the text of an integer <= 0.
SentNonPositive ==
    /\ form.num_combo /= << >>
    /\ ParseInt(form.num_combo[1]).ok
    /\ ParseInt(form.num_combo[1]).value <= 0

\* Zero iterations: nothing chosen, nothing covered, the empty solution.
EmptyResults ==
    /\ iter = 0
    /\ greedy_choices = << >>
    /\ greedy_covered = << >>
    /\ bt_best = EmptySolution
    /\ bt_best.score_sum = Zero

\* C6 as stated: a request whose num_combo is <= 0 or absent is no error and ends
\* with no greedy choice, empty total_covered and the empty solution.
C6_NonPositiveOrAbsentIsZeroIterations ==
    (pc /= "idle" /\ (form.num_combo = << >> \/ SentNonPositive)) =>
        /\ pc /= "error"
        /\ pc = "done" => EmptyResults

\* C6 as amended: a request whose num_combo is an integer <= 0 is no error and ends
\* with the empty results; a request without num_combo runs with num_combo = 3.
C6_NonPositiveIsZeroIterations ==
    /\ (pc /= "idle" /\ SentNonPositive) =>
            /\ pc /= "error"
            /\ pc = "done" => EmptyResults
    /\ (pc /= "idle" /\ form.num_combo = << >>) =>
            /\ pc /= "error"
            /\ num_combo = ParseInt(<< "3" >>).value

\* A request with a negative num_combo is done although recipes match.
C6_Witness ==
    /\ pc = "done"
    /\ SentNonPositive
    /\ num_combo < 0
    /\ matched_recipes /= << >>

\* Entry a is ranked before entry b: higher score, then more present ingredients,
\* then earlier in the catalog.
RankedBefore(a, b) ==
    \/ a.score > b.score
    \/ /\ a.score = b.score
       /\ \/ Len(a.present) > Len(b.present)
          \/ /\ Len(a.present) = Len(b.present)
             /\ Pos(a.recipe) < Pos(b.recipe)

C8_MatchScorePartition ==
    Rendered =>
        /\ Len(scores) = Len(recipes)
        /\ \A i \in Positions :
            LET m == scores[i]
                req == Req(recipes[i])
            IN  /\ SetOf(m.present) \cup SetOf(m.missing) = req
                /\ SetOf(m.present) \cap SetOf(m.missing) = {}
                /\ SetOf(m.present) = req \cap available_norm
                /\ Len(m.present) + Len(m.missing) = Cardinality(req)
                /\ m.score = Frac(Len(m.present), Max(Cardinality(req), 1))
                /\ ~FracGT(Zero, m.score)
                /\ ~FracGT(m.score, Frac(1, 1))
                /\ recipes[i].ingredients = << >> => m.score = Zero

\* A recipe that lists an ingredient twice has both present and missing
\* ingredients, and another recipe has no ingredients.
C8_Witness ==
    /\ pc = "done"
    /\ \E i \in Positions :
        /\ Len(recipes[i].ingredients) > Cardinality(Req(recipes[i]))
        /\ scores[i].present /= << >>
        /\ scores[i].missing /= << >>
    /\ \E i \in Positions : recipes[i].ingredients = << >>

\* The j-th choice, seen from the choices before it: the selected recipe was not
\* selected before, its covered list is its whole cover of what was uncovered then,
\* no unselected recipe covered more, and none tied with it stands earlier.
SelectionIsFirstMaximal(choices, j) ==
    LET earlier == { choices[i].recipe : i \in 1..(j - 1) }
        rem == available_norm \ UNION { SetOf(choices[i].covered) : i \in 1..(j - 1) }
        sel == choices[j].recipe
    IN  /\ sel \in SetOf(recipes) \ earlier
        /\ SetOf(choices[j].covered) = Req(sel) \cap rem
        /\ choices[j].covered /= << >>
        /\ \A p \in Positions :
               recipes[p] \notin earlier =>
                   /\ Cardinality(Req(recipes[p]) \cap rem) <= Len(choices[j].covered)
                   /\ Cardinality(Req(recipes[p]) \cap rem) = Len(choices[j].covered)
                          => Pos(sel) <= p

\* No recipe outside `choices` covers an ingredient `choices` left uncovered.
NothingLeftToCover(choices) ==
    LET rem == available_norm \ UNION { SetOf(choices[i].covered) : i \in 1..Len(choices) }
    IN  \A p \in Positions :
            recipes[p] \notin { choices[i].recipe : i \in 1..Len(choices) }
                => Req(recipes[p]) \cap rem = {}

\* C9: every greedy selection is, among the recipes not yet selected, the first in
\* catalog order of those with the largest cover of the uncovered ingredients; the
\* loop ends before num_combo selections only when no remaining recipe covers
\* anything, and never selects past that point.
C9_GreedySelectsFirstMaximal ==
    /\ pc = "greedy" =>
            \A j \in 1..Len(chosen) : SelectionIsFirstMaximal(chosen, j)
    /\ Rendered =>
        /\ \A j \in 1..Len(greedy_choices) : SelectionIsFirstMaximal(greedy_choices, j)
        /\ Len(greedy_choices) >= num_combo \/ NothingLeftToCover(greedy_choices)

\* The first selection was tied with a later recipe, and the loop stopped before
\* num_combo selections.
C9_Witness ==
    /\ pc = "done"
    /\ Len(greedy_choices) >= 1
    /\ Len(greedy_choices) < num_combo
    /\ \E p \in Positions :
        /\ recipes[p] /= greedy_choices[1].recipe
        /\ Cardinality(Req(recipes[p]) \cap available_norm) = Len(greedy_choices[1].covered)

\* The ids of the candidates, a set of catalog positions in catalog order.
CandidateIds == { bt_candidates[i].id : i \in 1..Len(bt_candidates) }

\* The ids of P in increasing order.
RECURSIVE Increasing(_)
Increasing(P) ==
    IF P = {} THEN << >>
    ELSE LET m == CHOOSE x \in P : \A y \in P : x <= y
         IN  << m >> \o Increasing(P \ {m})

\* Node s is visited before node t: s is a proper prefix of t, or at the first
\* place they differ s takes the lower candidate.
RECURSIVE VisitedBefore(_, _)
VisitedBefore(s, t) ==
    IF t = << >> THEN FALSE
    ELSE IF s = << >> THEN TRUE
    ELSE IF Head(s) = Head(t) THEN VisitedBefore(Tail(s), Tail(t))
    ELSE Head(s) < Head(t)

\* A visited node reaches the coverage and the score sum of the returned solution.
ReachesBest(node) ==
    /\ Cardinality(CoverOf(SetOf(node))) = bt_best.coverage_count
    /\ ScoreSumOf(SetOf(node)) = bt_best.score_sum

\* C10: the search visits every combination of at most num_combo candidates once,
\* a prefix before its extensions and lower candidates before higher ones, and of
\* the visited nodes that reach the returned coverage and score sum the returned
\* recipes are the one visited first.
C10_FirstVisitedOptimumKept ==
    pc = "done" =>
        /\ CandidateIds = { i \in Positions : Req(recipes[i]) \cap available_norm /= {} }
        /\ SetOf(visited) =
              { Increasing(P) : P \in { Q \in SUBSET CandidateIds :
                                            Cardinality(Q) <= Max(num_combo, 0) } }
        /\ \A i, j \in 1..Len(visited) : i < j => VisitedBefore(visited[i], visited[j])
        /\ \E i \in 1..Len(visited) :
            /\ ReachesBest(visited[i])
            /\ visited[i] = IdsOf(bt_best.recipes)
            /\ \A j \in 1..(i - 1) : ~ReachesBest(visited[j])

\* A non-empty combo was returned and a node visited later ties with it.
C10_Witness ==
    /\ pc = "done"
    /\ bt_best.recipes /= << >>
    /\ \E i \in 1..Len(visited) :
        /\ visited[i] /= IdsOf(bt_best.recipes)
        /\ ReachesBest(visited[i])

====
